---- MODULE Spec2Model ----
(***************************************************************************)
(* Model of the chatbot platform backend (backend/main.py).                *)
(*                                                                         *)
(* The state is the external document store (collections "projects",      *)
(* "projects/<id>/messages" and "files"), the wall clock read by           *)
(* datetime.utcnow(), the request handlers that are suspended at an        *)
(* `await`, and the last HTTP response sent.  The handlers are coroutines  *)
(* of one event loop that call the store synchronously, so a handler runs  *)
(* atomically from one `await` to the next: chat is suspended once, in     *)
(* `await call_openrouter_llm(...)`, upload_file once, in                  *)
(* `await file.read()`, and every other handler is a single step.          *)
(*                                                                         *)
(* Timestamps are readings of the clock of the one server process.  Two    *)
(* readings are always separated by a blocking write to the store, so each *)
(* reading is taken to be later than the one before: clock counts them.    *)
(* Document ids come from document() and are never issued twice.           *)
(***************************************************************************)
EXTENDS Integers, Sequences, FiniteSets, TLC

VARIABLES projects, messages, files, issued, clock, reqs, resp

vars == <<projects, messages, files, issued, clock, reqs, resp>>
store == <<projects, messages, files>>

-----------------------------------------------------------------------------
(* Bounds of the model *)

\* calls of datetime.utcnow() explored after the initial state
MaxTicks == 5
\* the same, where every handler runs (SpecAll)
AllTicks == 1
\* chat exchanges already in the log of the initial project
SeedExchanges == 10

Users == {"u1", "u2"}
ProjectIds == {"p1", "p2"}
FileIds == {"f1", "f2"}
\* the suspended handlers: at most one chat and one upload_file at a time
Slots == {"chat", "upload_file"}
Texts == {"hi", "yo"}
Replies == {"hello"}
Prompts == {""}
Names == {"demo"}
Filenames == {"a.txt"}
ContentTypes == {"text/plain"}
\* answers of the completion endpoint other than 200
UpstreamErrorStatuses == {201, 429}

-----------------------------------------------------------------------------
(* Program constants *)

\* .limit(20) of the history query of chat
HISTORY_LIMIT == 20
MAX_FILE_SIZE == 10 * 1024 * 1024
LLM_TIMEOUT_STATUS == 504
LLM_ERROR_STATUS == 500

Sizes == {MAX_FILE_SIZE, MAX_FILE_SIZE + 1}

-----------------------------------------------------------------------------
(* The document store *)

\* a document snapshot whose .exists is False
NoDoc == [exists |-> FALSE]

Min(a, b) == IF a <= b THEN a ELSE b

\* query.order_by("timestamp").stream(): the documents of a collection in
\* ascending order of their timestamp field
RECURSIVE order_by_timestamp(_)
order_by_timestamp(docs) ==
    IF docs = {} THEN <<>>
    ELSE LET first == CHOOSE d \in docs : \A e \in docs : d.timestamp <= e.timestamp
         IN  <<first>> \o order_by_timestamp(docs \ {first})

\* query.limit(n): the first n documents of the ordered result
limit(ordered, n) == SubSeq(ordered, 1, Min(n, Len(ordered)))

\* dict.get(key, default) on a project document
get_systemPrompt(project_data) ==
    IF "systemPrompt" \in DOMAIN project_data THEN project_data.systemPrompt ELSE ""

\* the log of the initial project: SeedExchanges earlier chats "hi" -> "hello"
SeedLog ==
    { [role |-> IF i % 2 = 1 THEN "user" ELSE "assistant",
       content |-> IF i % 2 = 1 THEN "hi" ELSE "hello",
       timestamp |-> i] : i \in 1..(2 * SeedExchanges) }

ClockStart == 2 * SeedExchanges + 1
ClockEnd == ClockStart + MaxTicks

-----------------------------------------------------------------------------
(* Responses *)

NoUpstream == [kind |-> "none", status_code |-> 0, choices |-> <<>>, text |-> ""]

Response(op, user_id, project_id, status_code, body, upstream) ==
    [op |-> op, user_id |-> user_id, project_id |-> project_id,
     status_code |-> status_code, body |-> body, upstream |-> upstream]

\* raise HTTPException(status_code, detail)
HTTPError(op, user_id, project_id, status_code, detail) ==
    Response(op, user_id, project_id, status_code, [detail |-> detail], NoUpstream)

NoResponse == Response("none", "", "", 0, [detail |-> <<>>], NoUpstream)

Idle == [pc |-> "idle"]

FreeSlot(r) == reqs[r].pc = "idle"

-----------------------------------------------------------------------------
(* Initial state: the store left by earlier runs holds one project of u1   *)
(* with the log of SeedExchanges completed chats; no request is in flight. *)

Init ==
    /\ projects = [p \in ProjectIds |->
                     IF p = "p1"
                     THEN [exists |-> TRUE, userId |-> "u1", name |-> "demo",
                           systemPrompt |-> "You are helpful", createdAt |-> 0]
                     ELSE NoDoc]
    /\ messages = [p \in ProjectIds |-> IF p = "p1" THEN SeedLog ELSE {}]
    /\ files = [f \in FileIds |-> NoDoc]
    /\ issued = {"p1"}
    /\ clock = ClockStart
    /\ reqs = [r \in Slots |-> Idle]
    /\ resp = NoResponse

\* the same store at a later time of day
InitAll ==
    /\ projects = [p \in ProjectIds |->
                     IF p = "p1"
                     THEN [exists |-> TRUE, userId |-> "u1", name |-> "demo",
                           systemPrompt |-> "You are helpful", createdAt |-> 0]
                     ELSE NoDoc]
    /\ messages = [p \in ProjectIds |-> IF p = "p1" THEN SeedLog ELSE {}]
    /\ files = [f \in FileIds |-> NoDoc]
    /\ issued = {"p1"}
    /\ clock = ClockEnd - AllTicks
    /\ reqs = [r \in Slots |-> Idle]
    /\ resp = NoResponse

-----------------------------------------------------------------------------
(* Projects *)

\* POST /api/projects
create_project(user_id, name, system_prompt) ==
    /\ clock < ClockEnd          \* bound of the exploration
    /\ \E id \in ProjectIds \ issued :
         /\ projects' = [projects EXCEPT ![id] =
                           [exists |-> TRUE, userId |-> user_id, name |-> name,
                            systemPrompt |-> system_prompt, createdAt |-> clock]]
         /\ issued' = issued \cup {id}
         /\ resp' = Response("create_project", user_id, id, 200,
                             [success |-> TRUE, projectId |-> id], NoUpstream)
    /\ clock' = clock + 1
    /\ UNCHANGED <<messages, files, reqs>>

\* serialize_timestamp(): a timestamp becomes its ISO-8601 string; the strings
\* of two timestamps compare as the timestamps do
serialize_timestamp(timestamp) == [isoformat |-> timestamp]

\* the project dictionaries list_projects builds from the query's documents
list_projects_result(user_id) ==
    { [id |-> p, name |-> projects[p].name, systemPrompt |-> projects[p].systemPrompt,
       createdAt |-> serialize_timestamp(projects[p].createdAt),
       userId |-> projects[p].userId] :
      p \in { q \in ProjectIds : projects[q].exists /\ projects[q].userId = user_id } }

\* result.sort(key=createdAt, reverse=True)
RECURSIVE sort_newest_first(_)
sort_newest_first(items) ==
    IF items = {} THEN <<>>
    ELSE LET newest == CHOOSE d \in items :
                          \A e \in items : d.createdAt.isoformat >= e.createdAt.isoformat
         IN  <<newest>> \o sort_newest_first(items \ {newest})

\* GET /api/projects
list_projects(user_id) ==
    /\ resp' = Response("list_projects", user_id, "", 200,
                        [projects |-> sort_newest_first(list_projects_result(user_id))],
                        NoUpstream)
    /\ UNCHANGED <<projects, messages, files, issued, clock, reqs>>

\* the checks at the head of get_project: 0 when they pass, else the status raised
get_project_guard(user_id, project_id) ==
    IF ~projects[project_id].exists THEN 404
    ELSE IF projects[project_id].userId # user_id THEN 403
    ELSE 0

\* GET /api/projects/{project_id}
get_project(user_id, project_id) ==
    /\ LET denied == get_project_guard(user_id, project_id)
           project_data == projects[project_id]
       IN  resp' =
             IF denied = 404
             THEN HTTPError("get_project", user_id, project_id, 404, <<"Project not found">>)
             ELSE IF denied = 403
             THEN HTTPError("get_project", user_id, project_id, 403, <<"Unauthorized access">>)
             ELSE Response("get_project", user_id, project_id, 200,
                           [id |-> project_id, userId |-> project_data.userId,
                            name |-> project_data.name,
                            systemPrompt |-> project_data.systemPrompt,
                            createdAt |-> serialize_timestamp(project_data.createdAt)],
                           NoUpstream)
    /\ UNCHANGED <<projects, messages, files, issued, clock, reqs>>

\* the checks at the head of delete_project
delete_project_guard(user_id, project_id) ==
    IF ~projects[project_id].exists THEN 404
    ELSE IF projects[project_id].userId # user_id THEN 403
    ELSE 0

\* delete_project without the loop over the messages
delete_messages_skipped(log) == log

\* the messages subcollection after `for msg in messages: msg.reference.delete()`
delete_messages(log) == {}

\* the project document after project_ref.delete()
delete_project_doc(project_data) == NoDoc

\* DELETE /api/projects/{project_id}
delete_project(user_id, project_id) ==
    LET denied == delete_project_guard(user_id, project_id) IN
    IF denied = 404
    THEN /\ resp' = HTTPError("delete_project", user_id, project_id, 404,
                              <<"Project not found">>)
         /\ UNCHANGED <<projects, messages, files, issued, clock, reqs>>
    ELSE IF denied = 403
    THEN /\ resp' = HTTPError("delete_project", user_id, project_id, 403,
                              <<"Unauthorized access">>)
         /\ UNCHANGED <<projects, messages, files, issued, clock, reqs>>
    ELSE /\ messages' = [messages EXCEPT ![project_id] = delete_messages(@)]
         /\ projects' = [projects EXCEPT ![project_id] = delete_project_doc(@)]
         /\ resp' = Response("delete_project", user_id, project_id, 200,
                             [success |-> TRUE, message |-> "Project deleted"], NoUpstream)
         /\ UNCHANGED <<files, issued, clock, reqs>>

-----------------------------------------------------------------------------
(* Chat *)

\* what the completion endpoint does with one request
UpstreamOutcomes ==
    {[kind |-> "timeout", status_code |-> 0, choices |-> <<>>, text |-> ""],
     [kind |-> "transport", status_code |-> 0, choices |-> <<>>, text |-> ""],
     [kind |-> "response", status_code |-> 200, choices |-> <<>>, text |-> "{}"]}
    \cup {[kind |-> "response", status_code |-> 200, choices |-> <<c>>, text |-> "ok"] :
          c \in Replies}
    \cup {[kind |-> "response", status_code |-> s, choices |-> <<>>,
           text |-> "upstream error"] : s \in UpstreamErrorStatuses}

NoException == [type |-> "none", status_code |-> 0, detail |-> <<>>]

\* the exception raised inside the try block of call_openrouter_llm, if any
llm_try_block(upstream) ==
    IF upstream.kind = "timeout"
    THEN [type |-> "httpx.TimeoutException", status_code |-> 0, detail |-> <<>>]
    ELSE IF upstream.kind = "transport"
    THEN [type |-> "httpx.ConnectError", status_code |-> 0, detail |-> <<"connect failed">>]
    ELSE IF upstream.status_code # 200
    THEN [type |-> "HTTPException", status_code |-> upstream.status_code,
          detail |-> <<"LLM API error: ", upstream.text>>]
    ELSE IF Len(upstream.choices) = 0
    THEN [type |-> "IndexError", status_code |-> 0, detail |-> <<"list index out of range">>]
    ELSE NoException

\* str(e) of the exception caught by `except Exception as e`
exception_str(e) ==
    IF e.type = "HTTPException" THEN <<ToString(e.status_code), ": ">> \o e.detail
    ELSE e.detail

\* call_openrouter_llm answering an empty completion where it should raise
call_openrouter_llm_swallow(context, upstream) ==
    LET e == llm_try_block(upstream) IN
    IF e.type = "none"
    THEN [ok |-> TRUE, content |-> upstream.choices[1], status_code |-> 200, detail |-> <<>>]
    ELSE [ok |-> TRUE, content |-> "", status_code |-> 200, detail |-> <<>>]

\* call_openrouter_llm: the content of the first choice, or the HTTPException
\* the except clauses raise (every exception of the try block that is no
\* httpx.TimeoutException reaches `except Exception`)
call_openrouter_llm(context, upstream) ==
    LET e == llm_try_block(upstream) IN
    IF e.type = "none"
    THEN [ok |-> TRUE, content |-> upstream.choices[1], status_code |-> 200, detail |-> <<>>]
    ELSE IF e.type = "httpx.TimeoutException"
    THEN [ok |-> FALSE, content |-> "", status_code |-> LLM_TIMEOUT_STATUS,
          detail |-> <<"LLM request timeout">>]
    ELSE [ok |-> FALSE, content |-> "", status_code |-> LLM_ERROR_STATUS,
          detail |-> <<"LLM error: ">> \o exception_str(e)]

\* chat without the ownership comparison
chat_guard_no_owner_check(user_id, project_id) ==
    IF ~projects[project_id].exists THEN 404 ELSE 0

\* step 1 of chat: 0 when the ownership checks pass, else the status raised
chat_guard(user_id, project_id) ==
    IF ~projects[project_id].exists THEN 404
    ELSE IF projects[project_id].userId # user_id THEN 403
    ELSE 0

\* step 2 of chat: the documents the history query streams
chat_history_ref(project_id) ==
    limit(order_by_timestamp(messages[project_id]), HISTORY_LIMIT)

role_content(msg_data) == [role |-> msg_data.role, content |-> msg_data.content]

\* the context without the system element when the prompt is empty
build_messages_skip_empty_prompt(project_data, history, message) ==
    (IF get_systemPrompt(project_data) = "" THEN <<>>
     ELSE <<[role |-> "system", content |-> get_systemPrompt(project_data)]>>)
    \o [i \in 1..Len(history) |-> role_content(history[i])]
    \o <<[role |-> "user", content |-> message]>>

\* steps 2 and 3 of chat: the list handed to call_openrouter_llm
build_messages(project_data, history, message) ==
    <<[role |-> "system", content |-> get_systemPrompt(project_data)]>>
    \o [i \in 1..Len(history) |-> role_content(history[i])]
    \o <<[role |-> "user", content |-> message]>>

\* POST /api/chat/{project_id}, up to `await call_openrouter_llm(messages)`
chat_call(user_id, project_id, message) ==
    LET denied == chat_guard(user_id, project_id) IN
    IF denied = 404
    THEN /\ resp' = HTTPError("chat", user_id, project_id, 404, <<"Project not found">>)
         /\ UNCHANGED <<projects, messages, files, issued, clock, reqs>>
    ELSE IF denied = 403
    THEN /\ resp' = HTTPError("chat", user_id, project_id, 403, <<"Unauthorized access">>)
         /\ UNCHANGED <<projects, messages, files, issued, clock, reqs>>
    ELSE /\ \E r \in {"chat"} :
              /\ FreeSlot(r)
              /\ LET project_data == projects[project_id]
                     history == chat_history_ref(project_id)
                 IN  reqs' = [reqs EXCEPT ![r] =
                        [pc |-> "llm", op |-> "chat", user_id |-> user_id,
                         project_id |-> project_id, message |-> message,
                         project_data |-> project_data, history |-> history,
                         messages |-> build_messages(project_data, history, message)]]
         /\ resp' = NoResponse
         /\ UNCHANGED <<projects, messages, files, issued, clock>>

\* the two writes in the other order
chat_save_assistant_first(log, message, assistant_response, now) ==
    log \cup {[role |-> "assistant", content |-> assistant_response, timestamp |-> now],
              [role |-> "user", content |-> message, timestamp |-> now + 1]}

\* steps 5 and 6 of chat: collection("messages").add(...), twice
chat_save(log, message, assistant_response, now) ==
    log \cup {[role |-> "user", content |-> message, timestamp |-> now],
              [role |-> "assistant", content |-> assistant_response, timestamp |-> now + 1]}

\* chat from the return of call_openrouter_llm to the response
chat_return(r, upstream) ==
    /\ reqs[r].pc = "llm"
    /\ LET req == reqs[r]
           llm == call_openrouter_llm(req.messages, upstream)
       IN  IF llm.ok
           THEN /\ clock + 2 <= ClockEnd          \* bound of the exploration
                /\ messages' = [messages EXCEPT ![req.project_id] =
                                  chat_save(@, req.message, llm.content, clock)]
                /\ clock' = clock + 2
                /\ resp' = Response("chat", req.user_id, req.project_id, 200,
                                    [success |-> TRUE, response |-> llm.content], upstream)
           ELSE /\ resp' = Response("chat", req.user_id, req.project_id, llm.status_code,
                                    [detail |-> llm.detail], upstream)
                /\ UNCHANGED <<messages, clock>>
    /\ reqs' = [reqs EXCEPT ![r] = Idle]
    /\ UNCHANGED <<projects, files, issued>>

\* the checks at the head of get_chat_history
get_chat_history_guard(user_id, project_id) ==
    IF ~projects[project_id].exists THEN 404
    ELSE IF projects[project_id].userId # user_id THEN 403
    ELSE 0

\* the history list get_chat_history builds from the ordered stream
history_of(project_id) ==
    LET ordered == order_by_timestamp(messages[project_id]) IN
    [i \in 1..Len(ordered) |->
       [role |-> ordered[i].role, content |-> ordered[i].content,
        timestamp |-> serialize_timestamp(ordered[i].timestamp)]]

\* GET /api/chat/{project_id}/history
get_chat_history(user_id, project_id) ==
    /\ LET denied == get_chat_history_guard(user_id, project_id) IN
       resp' =
         IF denied = 404
         THEN HTTPError("get_chat_history", user_id, project_id, 404, <<"Project not found">>)
         ELSE IF denied = 403
         THEN HTTPError("get_chat_history", user_id, project_id, 403, <<"Unauthorized access">>)
         ELSE Response("get_chat_history", user_id, project_id, 200,
                       [history |-> history_of(project_id)], NoUpstream)
    /\ UNCHANGED <<projects, messages, files, issued, clock, reqs>>

-----------------------------------------------------------------------------
(* Files *)

\* len(base64.b64encode(content)): four characters for every three bytes, padded
b64encode_len(n) == 4 * ((n + 2) \div 3)

\* the checks at the head of upload_file
upload_file_guard(user_id, project_id) ==
    IF ~projects[project_id].exists THEN 404
    ELSE IF projects[project_id].userId # user_id THEN 403
    ELSE 0

\* POST /api/projects/{project_id}/files, up to `await file.read()`
upload_file_call(user_id, project_id, filename, content_type, size) ==
    LET denied == upload_file_guard(user_id, project_id) IN
    IF denied = 404
    THEN /\ resp' = HTTPError("upload_file", user_id, project_id, 404, <<"Project not found">>)
         /\ UNCHANGED <<projects, messages, files, issued, clock, reqs>>
    ELSE IF denied = 403
    THEN /\ resp' = HTTPError("upload_file", user_id, project_id, 403, <<"Access denied">>)
         /\ UNCHANGED <<projects, messages, files, issued, clock, reqs>>
    ELSE /\ FreeSlot("upload_file")
         /\ reqs' = [reqs EXCEPT !["upload_file"] =
                       [pc |-> "read", op |-> "upload_file", user_id |-> user_id,
                        project_id |-> project_id, filename |-> filename,
                        content_type |-> content_type, size |-> size]]
         /\ resp' = NoResponse
         /\ UNCHANGED <<projects, messages, files, issued, clock>>

\* the size check with >= for >
too_large_at_limit(file_size) == file_size >= MAX_FILE_SIZE

\* `if file_size > MAX_FILE_SIZE`
too_large(file_size) == file_size > MAX_FILE_SIZE

\* upload_file from the return of file.read() to the response
upload_file_return(r) ==
    /\ reqs[r].pc = "read"
    /\ LET req == reqs[r]
           file_size == req.size
       IN  IF too_large(file_size)
           THEN /\ resp' = HTTPError("upload_file", req.user_id, req.project_id, 400,
                                     <<"File too large. Maximum size: ", "10.0", "MB">>)
                /\ UNCHANGED <<files, issued, clock>>
           ELSE /\ clock < ClockEnd          \* bound of the exploration
                /\ \E id \in FileIds \ issued :
                     /\ files' = [files EXCEPT ![id] =
                                    [exists |-> TRUE, projectId |-> req.project_id,
                                     userId |-> req.user_id, filename |-> req.filename,
                                     contentType |-> req.content_type, size |-> file_size,
                                     contentBase64 |-> b64encode_len(file_size),
                                     uploadedAt |-> clock]]
                     /\ issued' = issued \cup {id}
                     /\ resp' = Response("upload_file", req.user_id, req.project_id, 200,
                                         [success |-> TRUE, fileId |-> id,
                                          filename |-> req.filename, size |-> file_size,
                                          contentType |-> req.content_type], NoUpstream)
                /\ clock' = clock + 1
    /\ reqs' = [reqs EXCEPT ![r] = Idle]
    /\ UNCHANGED <<projects, messages>>

\* list_files without the ownership comparison
list_files_guard_no_owner_check(user_id, project_id) ==
    IF ~projects[project_id].exists THEN 404 ELSE 0

\* the checks at the head of list_files
list_files_guard(user_id, project_id) ==
    IF ~projects[project_id].exists THEN 404
    ELSE IF projects[project_id].userId # user_id THEN 403
    ELSE 0

\* the dictionaries list_files builds: the documents of the query without
\* contentBase64, with fileId and the serialized uploadedAt
list_files_result(user_id, project_id) ==
    { [fileId |-> f, projectId |-> files[f].projectId, userId |-> files[f].userId,
       filename |-> files[f].filename, contentType |-> files[f].contentType,
       size |-> files[f].size, uploadedAt |-> serialize_timestamp(files[f].uploadedAt)] :
      f \in { g \in FileIds : /\ files[g].exists
                              /\ files[g].projectId = project_id
                              /\ files[g].userId = user_id } }

\* GET /api/projects/{project_id}/files
list_files(user_id, project_id) ==
    /\ LET denied == list_files_guard(user_id, project_id) IN
       resp' =
         IF denied = 404
         THEN HTTPError("list_files", user_id, project_id, 404, <<"Project not found">>)
         ELSE IF denied = 403
         THEN HTTPError("list_files", user_id, project_id, 403, <<"Access denied">>)
         ELSE LET found == list_files_result(user_id, project_id) IN
              Response("list_files", user_id, project_id, 200,
                       [projectId |-> project_id, count |-> Cardinality(found),
                        files |-> found], NoUpstream)
    /\ UNCHANGED <<projects, messages, files, issued, clock, reqs>>

\* the project checks at the head of delete_file
delete_file_guard(user_id, project_id) ==
    IF ~projects[project_id].exists THEN 404
    ELSE IF projects[project_id].userId # user_id THEN 403
    ELSE 0

\* delete_file without the comparison of the file's project
delete_file_check_any_project(project_id, file_id) ==
    IF ~files[file_id].exists THEN 404 ELSE 0

\* the file checks of delete_file: 0 when they pass, else the status raised
delete_file_check(project_id, file_id) ==
    IF ~files[file_id].exists THEN 404
    ELSE IF files[file_id].projectId # project_id THEN 400
    ELSE 0

\* DELETE /api/projects/{project_id}/files/{file_id}
delete_file(user_id, project_id, file_id) ==
    LET denied == delete_file_guard(user_id, project_id) IN
    IF denied = 404
    THEN /\ resp' = HTTPError("delete_file", user_id, project_id, 404, <<"Project not found">>)
         /\ UNCHANGED <<projects, messages, files, issued, clock, reqs>>
    ELSE IF denied = 403
    THEN /\ resp' = HTTPError("delete_file", user_id, project_id, 403, <<"Access denied">>)
         /\ UNCHANGED <<projects, messages, files, issued, clock, reqs>>
    ELSE LET refused == delete_file_check(project_id, file_id) IN
         IF refused = 404
         THEN /\ resp' = HTTPError("delete_file", user_id, project_id, 404, <<"File not found">>)
              /\ UNCHANGED <<projects, messages, files, issued, clock, reqs>>
         ELSE IF refused = 400
         THEN /\ resp' = HTTPError("delete_file", user_id, project_id, 400,
                                   <<"File does not belong to project">>)
              /\ UNCHANGED <<projects, messages, files, issued, clock, reqs>>
         ELSE /\ files' = [files EXCEPT ![file_id] = NoDoc]
              /\ resp' = Response("delete_file", user_id, project_id, 200,
                                  [success |-> TRUE, fileId |-> file_id,
                                   message |-> "File deleted successfully"], NoUpstream)
              /\ UNCHANGED <<projects, messages, issued, clock, reqs>>

-----------------------------------------------------------------------------
(* Authentication *)

\* Authorization headers, as the pieces str.startswith and str.split see:
\* the scheme prefix "Bearer " and what stands around it
Authorizations ==
    {<<"Bearer ", "tok-u1">>, <<"Bearer ", "tok-u2">>, <<"Bearer ", "garbage">>,
     <<"Bearer ">>, <<"tok-u1">>, <<"Basic ", "tok-u1">>}

\* authorization.startswith("Bearer ")
startswith_Bearer(authorization) ==
    Len(authorization) >= 1 /\ authorization[1] = "Bearer "

\* authorization.split("Bearer ")[1] of a header that starts with "Bearer "
split_Bearer_1(authorization) ==
    LET rest == Tail(authorization)
        stops == {i \in 1..Len(rest) : rest[i] = "Bearer "}
        stop == IF stops = {} THEN Len(rest) + 1
                ELSE CHOOSE i \in stops : \A j \in stops : i <= j
    IN  SubSeq(rest, 1, stop - 1)

\* what firebase_auth.verify_id_token(token) can do: return the decoded
\* claims, or raise.  `classes` are the exception's class and its bases;
\* firebase_admin declares ExpiredIdTokenError a subclass of InvalidIdTokenError.
ProviderOutcomes(token) ==
    (IF token = <<"tok-u1">> \/ token = <<"tok-u2">>
     THEN {[kind |-> "valid", uid |-> IF token = <<"tok-u1">> THEN "u1" ELSE "u2",
            type |-> "none", classes |-> {}, str |-> <<>>],
           [kind |-> "expired", uid |-> "", type |-> "ExpiredIdTokenError",
            classes |-> {"ExpiredIdTokenError", "InvalidIdTokenError", "Exception"},
            str |-> <<"Token expired, 1700000100 < 1700000000">>]}
     ELSE {})
    \cup (IF token = <<"garbage">>
          THEN {[kind |-> "invalid", uid |-> "", type |-> "InvalidIdTokenError",
                 classes |-> {"InvalidIdTokenError", "Exception"},
                 str |-> <<"Wrong number of segments in token">>]}
          ELSE {})
    \cup (IF token = <<>>
          THEN {[kind |-> "unknown", uid |-> "", type |-> "ValueError",
                 classes |-> {"ValueError", "Exception"},
                 str |-> <<"Illegal ID token provided">>]}
          ELSE {[kind |-> "unknown", uid |-> "", type |-> "CertificateFetchError",
                 classes |-> {"CertificateFetchError", "Exception"},
                 str |-> <<"Could not fetch certificates">>]})

\* the try block of verify_token: the exception it raises, or the uid
verify_token_try(authorization, provider) ==
    IF ~startswith_Bearer(authorization)
    THEN [kind |-> "malformed", uid |-> "", type |-> "HTTPException",
          classes |-> {"HTTPException", "Exception"},
          str |-> <<"401", ": ", "Invalid authorization header format">>]
    ELSE provider

\* verify_token: the uid, or the HTTPException of the first except clause
\* that matches the exception of the try block
verify_token(authorization, provider) ==
    LET e == verify_token_try(authorization, provider) IN
    IF e.type = "none"
    THEN [ok |-> TRUE, uid |-> e.uid, status_code |-> 200, detail |-> <<>>]
    ELSE IF "InvalidIdTokenError" \in e.classes
    THEN [ok |-> FALSE, uid |-> "", status_code |-> 401,
          detail |-> <<"Invalid Firebase token">>]
    ELSE IF "ExpiredIdTokenError" \in e.classes
    THEN [ok |-> FALSE, uid |-> "", status_code |-> 401, detail |-> <<"Token expired">>]
    ELSE [ok |-> FALSE, uid |-> "", status_code |-> 401,
          detail |-> <<"Authentication failed: ">> \o e.str]

\* the provider's answers to the token of a header (none is asked for when
\* the header does not start with "Bearer ")
ProviderFor(authorization) ==
    IF startswith_Bearer(authorization)
    THEN ProviderOutcomes(split_Bearer_1(authorization))
    ELSE {[kind |-> "unknown", uid |-> "", type |-> "not called",
           classes |-> {}, str |-> <<>>]}

\* a request to a route with Depends(verify_token) that verify_token rejects
rejected_request(authorization, provider) ==
    /\ ~verify_token(authorization, provider).ok
    /\ resp' = HTTPError("verify_token", "", "",
                         verify_token(authorization, provider).status_code,
                         verify_token(authorization, provider).detail)
    /\ UNCHANGED <<projects, messages, files, issued, clock, reqs>>

\* the project handlers, called with the uid verify_token returned
ProjectHandlers(user_id) ==
    \/ \E n \in Names, s \in Prompts : create_project(user_id, n, s)
    \/ list_projects(user_id)
    \/ \E p \in ProjectIds : get_project(user_id, p)
    \/ \E p \in ProjectIds : delete_project(user_id, p)

\* the chat handlers, called with the uid verify_token returned
ChatHandlers(user_id) ==
    \/ \E p \in ProjectIds, t \in Texts : chat_call(user_id, p, t)
    \/ \E p \in ProjectIds : get_chat_history(user_id, p)

\* a request that verify_token lets through to its handler
accepted_request(authorization, provider) ==
    /\ verify_token(authorization, provider).ok
    /\ \/ ProjectHandlers(verify_token(authorization, provider).uid)
       \/ ChatHandlers(verify_token(authorization, provider).uid)

AuthActions ==
    \/ \E a \in Authorizations : \E o \in ProviderFor(a) : rejected_request(a, o)
    \/ \E a \in Authorizations : \E o \in ProviderFor(a) : accepted_request(a, o)

ProjectActions ==
    \/ \E u \in Users, n \in Names, s \in Prompts : create_project(u, n, s)
    \/ \E u \in Users : list_projects(u)
    \/ \E u \in Users, p \in ProjectIds : get_project(u, p)
    \/ \E u \in Users, p \in ProjectIds : delete_project(u, p)

ChatActions ==
    \/ \E u \in Users, p \in ProjectIds, t \in Texts : chat_call(u, p, t)
    \/ \E up \in UpstreamOutcomes : chat_return("chat", up)
    \/ \E u \in Users, p \in ProjectIds : get_chat_history(u, p)

FileActions ==
    \/ \E u \in Users, p \in ProjectIds, n \in Filenames, c \in ContentTypes, z \in Sizes :
         upload_file_call(u, p, n, c, z)
    \/ upload_file_return("upload_file")
    \/ \E u \in Users, p \in ProjectIds : list_files(u, p)
    \/ \E u \in Users, p \in ProjectIds, f \in FileIds : delete_file(u, p, f)

\* every handler
Next == ProjectActions \/ ChatActions \/ FileActions

\* the conversation core: projects and chat
NextChat == ProjectActions \/ ChatActions

\* projects and files
NextFiles == ProjectActions \/ FileActions

SpecAll == InitAll /\ [][Next]_vars
SpecChat == Init /\ [][NextChat]_vars
SpecFiles == Init /\ [][NextFiles]_vars

\* the project and chat routes, each behind Depends(verify_token)
NextAuth == AuthActions \/ \E up \in UpstreamOutcomes : chat_return("chat", up)
SpecAuth == Init /\ [][NextAuth]_vars

-----------------------------------------------------------------------------
(* Properties *)

\* project_id exists and belongs to somebody other than user_id
OwnedByOther(user_id, project_id) ==
    /\ projects[project_id].exists
    /\ projects[project_id].userId # user_id

\* the completion call fails: timeout, transport error, a status other than
\* 200, or a body without a first choice
CompletionFails(upstream) ==
    \/ upstream.kind \in {"timeout", "transport"}
    \/ upstream.status_code # 200
    \/ upstream.choices = <<>>

IsSuffix(s, t) ==
    /\ Len(s) <= Len(t)
    /\ s = SubSeq(t, Len(t) - Len(s) + 1, Len(t))

\* C1: a chat request on an existing project by a user who is not its owner
\* is answered 403 "Unauthorized access", leaves projects, messages and files
\* as they were and starts no completion call.
C1_ChatByNonOwnerForbidden ==
    [][\A u \in Users, p \in ProjectIds, t \in Texts :
         (OwnedByOther(u, p) /\ chat_call(u, p, t))
         => /\ resp'.op = "chat" /\ resp'.user_id = u /\ resp'.project_id = p
            /\ resp'.status_code = 403
            /\ store' = store
            /\ reqs' = reqs]_vars

C1_Witness ==
    /\ resp.op = "chat"
    /\ resp.status_code = 403
    /\ OwnedByOther(resp.user_id, resp.project_id)
    /\ messages[resp.project_id] # {}

\* C2: when the completion call of a chat fails, the request is answered with
\* an error status and no message is added to (or removed from) any log.
C2_FailedCompletionLeavesLog ==
    [][\A up \in UpstreamOutcomes :
         (CompletionFails(up) /\ chat_return("chat", up))
         => /\ resp'.op = "chat"
            /\ resp'.status_code >= 400
            /\ messages' = messages
            /\ Cardinality(messages'[reqs["chat"].project_id])
                 = Cardinality(messages[reqs["chat"].project_id])]_vars

C2_Witness ==
    /\ resp.op = "chat"
    /\ resp.upstream.kind # "none"
    /\ CompletionFails(resp.upstream)
    /\ resp.status_code >= 400
    /\ messages[resp.project_id] # {}

\* the documents of a history read, as get_chat_history would return them
as_history(docs) ==
    [i \in 1..Len(docs) |->
       [role |-> docs[i].role, content |-> docs[i].content,
        timestamp |-> serialize_timestamp(docs[i].timestamp)]]

\* C3: the history read of chat returns at most 20 messages and they are a
\* suffix (the most recent ones) of the full log get_chat_history returns.
C3_TailIsMostRecent ==
    [][\A u \in Users, p \in ProjectIds, t \in Texts :
         (chat_call(u, p, t) /\ reqs["chat"].pc = "idle" /\ reqs'["chat"].pc = "llm")
         => /\ Len(reqs'["chat"].history) <= 20
            /\ IsSuffix(as_history(reqs'["chat"].history), history_of(p))]_vars

\* C4: the list handed to the completion call is the system element with the
\* project's system prompt ("" when the document has none), then the
\* role/content pairs of the history read in its order, then the user element
\* with the new text: len(history) + 2 elements.
C4_ContextShape ==
    reqs["chat"].pc = "llm" =>
      LET req == reqs["chat"]
          n == Len(req.history)
          prompt == IF "systemPrompt" \in DOMAIN req.project_data
                    THEN req.project_data.systemPrompt ELSE ""
      IN  /\ Len(req.messages) = n + 2
          /\ req.messages[1] = [role |-> "system", content |-> prompt]
          /\ projects[req.project_id].exists
               => req.messages[1].content = projects[req.project_id].systemPrompt
          /\ req.messages[n + 2] = [role |-> "user", content |-> req.message]
          /\ \A i \in 1..n :
               /\ req.messages[i + 1].role = req.history[i].role
               /\ req.messages[i + 1].content = req.history[i].content

C4_Witness ==
    /\ reqs["chat"].pc = "llm"
    /\ Len(reqs["chat"].history) = 20
    /\ reqs["chat"].message = "yo"
    /\ Cardinality(messages[reqs["chat"].project_id]) > 20

\* C5: a chat whose completion succeeds adds exactly two messages to the log
\* of its project, the user message and then the assistant message, behind
\* every message already there, and only when the completion has returned;
\* the request itself (up to the completion call) adds nothing.
C5_SuccessAppendsUserThenAssistant ==
    [][/\ \A up \in UpstreamOutcomes :
            (~CompletionFails(up) /\ reqs["chat"].pc = "llm" /\ reqs'["chat"].pc = "idle"
               /\ chat_return("chat", up))
            => LET req == reqs["chat"]
                   before == order_by_timestamp(messages[req.project_id])
                   after == order_by_timestamp(messages'[req.project_id])
                   n == Len(before)
               IN  /\ resp'.status_code = 200
                   /\ Len(after) = n + 2
                   /\ SubSeq(after, 1, n) = before
                   /\ role_content(after[n + 1]) = [role |-> "user", content |-> req.message]
                   /\ role_content(after[n + 2]) =
                        [role |-> "assistant", content |-> up.choices[1]]
                   /\ \A q \in ProjectIds \ {req.project_id} : messages'[q] = messages[q]
       /\ messages' # messages =>
            \A u \in Users, p \in ProjectIds, t \in Texts : ~chat_call(u, p, t)]_vars

C5_Witness ==
    /\ resp.op = "chat"
    /\ resp.status_code = 200
    /\ LET h == history_of(resp.project_id) IN
       /\ Len(h) = 2
       /\ role_content(h[1]) = [role |-> "user", content |-> "hi"]
       /\ role_content(h[2]) = [role |-> "assistant", content |-> "hello"]

\* project_id was created and has been deleted
Deleted(project_id) == project_id \in issued /\ ~projects[project_id].exists

\* C6: a successful delete_project removes the project document and every
\* message then in its log; from then on the project stays deleted, no
\* list_projects output names it and a history request for it is answered 404.
C6_DeleteProjectRemoves ==
    [][/\ \A u \in Users, p \in ProjectIds :
            (delete_project(u, p) /\ resp'.status_code = 200)
            => /\ projects[p].exists /\ projects[p].userId = u
               /\ ~projects'[p].exists
               /\ messages'[p] = {}
       /\ \A p \in ProjectIds : Deleted(p) => Deleted(p)'
       /\ \A p \in ProjectIds :
            Deleted(p)' =>
              /\ resp'.op = "list_projects"
                   => \A i \in 1..Len(resp'.body.projects) : resp'.body.projects[i].id # p
              /\ (resp'.op = "get_chat_history" /\ resp'.project_id = p)
                   => resp'.status_code = 404]_vars

C6_Witness ==
    /\ Deleted("p1")
    /\ resp.op = "get_chat_history"
    /\ resp.user_id = "u1"
    /\ resp.project_id = "p1"
    /\ resp.status_code = 404

\* C7: the status of a chat whose completion call failed is 504 after a
\* timeout, the upstream's own status after a non-2xx answer, 500 otherwise.
C7_StatusFromFailureKind ==
    (resp.op = "chat" /\ resp.upstream.kind # "none" /\ CompletionFails(resp.upstream))
    => resp.status_code =
         IF resp.upstream.kind = "timeout" THEN 504
         ELSE IF resp.upstream.kind = "response"
                 /\ resp.upstream.status_code \notin 200..299
         THEN resp.upstream.status_code
         ELSE 500

\* the step is the named handler called by user u for project p
HandlerStep(op, u, p) ==
    \/ op = "get_project" /\ get_project(u, p)
    \/ op = "delete_project" /\ delete_project(u, p)
    \/ op = "get_chat_history" /\ get_chat_history(u, p)
    \/ op = "upload_file"
       /\ \E n \in Filenames, c \in ContentTypes, z \in Sizes : upload_file_call(u, p, n, c, z)
    \/ op = "list_files" /\ list_files(u, p)
    \/ op = "delete_file" /\ \E f \in FileIds : delete_file(u, p, f)

GuardedHandlers ==
    {"get_project", "delete_project", "get_chat_history",
     "upload_file", "list_files", "delete_file"}

\* C8: get_project, delete_project, get_chat_history, upload_file, list_files
\* and delete_file called for a project the caller does not own answer 404
\* when the project is absent and 403 when it exists, with nothing but the
\* error detail in the body, and change nothing; list_projects returns only
\* projects of the caller.
C8_OwnershipChecked ==
    [][/\ \A op \in GuardedHandlers :
            resp'.op \in {op, "none"} =>
              \A u \in Users, p \in ProjectIds :
                ((~projects[p].exists \/ projects[p].userId # u) /\ HandlerStep(op, u, p))
                => /\ resp'.op = op /\ resp'.user_id = u /\ resp'.project_id = p
                   /\ resp'.status_code = (IF projects[p].exists THEN 403 ELSE 404)
                   /\ DOMAIN resp'.body = {"detail"}
                   /\ UNCHANGED <<projects, messages, files, issued, clock, reqs>>
       /\ resp'.op = "list_projects" =>
            \A u \in Users :
              list_projects(u)
              => \A i \in 1..Len(resp'.body.projects) :
                   /\ resp'.body.projects[i].userId = u
                   /\ projects[resp'.body.projects[i].id].userId = u]_vars

C8_Witness ==
    /\ resp.op = "list_files"
    /\ resp.status_code = 403
    /\ OwnedByOther(resp.user_id, resp.project_id)
    /\ \E f \in FileIds : files[f].exists /\ files[f].projectId = resp.project_id

\* C9: the upload of a payload of more than 10 * 1024 * 1024 bytes is answered
\* 400 and creates no file record; a payload of exactly that size is accepted
\* and creates exactly one record, with the payload's size, the project and
\* the project's owner.
C9_UploadSizeLimit ==
    [][upload_file_return("upload_file")
       => LET req == reqs["upload_file"] IN
          /\ req.size > 10485760
               => /\ resp'.status_code = 400
                  /\ files' = files
          /\ req.size = 10485760
               => /\ resp'.status_code = 200
                  /\ \E id \in FileIds :
                       /\ ~files[id].exists
                       /\ files'[id].exists
                       /\ files'[id].size = req.size
                       /\ files'[id].projectId = req.project_id
                       /\ files'[id].userId = req.user_id
                       /\ projects[req.project_id].exists
                            => files'[id].userId = projects[req.project_id].userId
                       /\ resp'.body.fileId = id
                       /\ \A g \in FileIds \ {id} : files'[g] = files[g]]_vars

C9_Witness ==
    /\ resp.op = "upload_file"
    /\ resp.status_code = 200
    /\ resp.body.size = 10485760
    /\ files[resp.body.fileId].exists
    /\ files[resp.body.fileId].size = 10485760
    /\ projects[resp.project_id].exists
    /\ projects[resp.project_id].userId = resp.user_id

\* C10: every stored message belongs to a project that exists.
C10_NoOrphanedMessages ==
    \A p \in ProjectIds : messages[p] # {} => projects[p].exists

\* the kind of credential failure of a request
AuthFailureKind(authorization, provider) ==
    IF ~startswith_Bearer(authorization) THEN "malformed" ELSE provider.kind

\* the kind of failure a 401 response reports
ReportedKind(detail) ==
    IF detail = <<"Invalid authorization header format">> THEN "malformed"
    ELSE IF detail = <<"Invalid Firebase token">> THEN "invalid"
    ELSE IF detail = <<"Token expired">> THEN "expired"
    ELSE IF Len(detail) >= 1 /\ detail[1] = "Authentication failed: " THEN "unknown"
    ELSE "other"

\* C11: verify_token answers 401 to every bad credential and reports each
\* kind under its own outcome: a header without "Bearer " as malformed, an
\* invalid token as invalid, an expired token as expired, any other failure
\* of the provider as unknown-failure.
C11_DistinctAuthErrors ==
    [][resp'.op = "verify_token" =>
         \A a \in Authorizations : \A o \in ProviderFor(a) :
           rejected_request(a, o)
           => /\ resp'.status_code = 401
              /\ ReportedKind(resp'.body.detail) = AuthFailureKind(a, o)]_vars

\* C12: delete_file called by the owner of project p answers 404 for a file
\* id without a document, 400 for a file of another project, which it
\* leaves in place, and deletes only a file of p; no other file, no project
\* and no message changes.
C12_DeleteFileOutcomes ==
    [][resp'.op = "delete_file" =>
         \A u \in Users, p \in ProjectIds, f \in FileIds :
           (projects[p].exists /\ projects[p].userId = u /\ delete_file(u, p, f))
           => /\ ~files[f].exists
                   => /\ resp'.status_code = 404
                      /\ files' = files
              /\ (files[f].exists /\ files[f].projectId # p)
                   => /\ resp'.status_code = 400
                      /\ files' = files
              /\ (files[f].exists /\ files[f].projectId = p)
                   => /\ resp'.status_code = 200
                      /\ ~files'[f].exists
                      /\ \A g \in FileIds \ {f} : files'[g] = files[g]
              /\ UNCHANGED <<projects, messages, issued, clock, reqs>>]_vars

\* the owner of a project has just been refused the deletion of a file that
\* exists under another project
C12_Witness ==
    /\ resp.op = "delete_file"
    /\ resp.status_code = 400
    /\ projects[resp.project_id].exists
    /\ projects[resp.project_id].userId = resp.user_id
    /\ \E f \in FileIds : files[f].exists /\ files[f].projectId # resp.project_id

====
